---- MODULE Spec2Model ----
(***************************************************************************)
(* Draft-order construction of app.py: the SKU-mode handler                *)
(* create_draft_from_method and the legacy percentage handler              *)
(* create_draft_order, one request per behaviour.                          *)
(*                                                                         *)
(* Strings the code inspects (SKUs) are sequences of one-character         *)
(* strings.  SKU-mode money is counted in mills (1/1000), so that          *)
(* round(x, 2) and the "{:.2f}" format are real conversions; what they     *)
(* produce is counted in cents.  A value exactly halfway between two cents *)
(* goes up or down depending on the binary representation of the float,    *)
(* which the model leaves open (the tie parameter).  Legacy-mode money is  *)
(* counted in cents and percentages in tenths of a percent.                *)
(***************************************************************************)
EXTENDS Integers, Sequences, FiniteSets, TLC

\* Longest product_list / items list a request carries.
MaxRows == 2

VARIABLES
    pc,                  \* "idle", "loop", "done" (a response was returned), "crashed" (an exception left the handler)
    endpoint,            \* "none", "method" (/create-draft-from-method), "legacy" (/create-draft)
    n,                   \* rows of the list iterated so far
    cur,                 \* the loop's locals for the row processed last (<<>> before the first)
    quote_number,        \* <<>> for None, else <<string>>
    quote_tax,           \* <<>> for None, else <<mills>>
    line_items,
    shipping_line,       \* <<>> for None, else <<record>>
    order_discount_total,\* mills
    tax_exempt,
    any_st_seen,
    any_variant_matched,
    submitted,           \* <<>>, or <<draft_body>> once requests.post was called with it
    status,              \* HTTP status of the JSON response returned (0: none yet)
    \* history of the input rows fully read so far (SKU mode), for the claims
    h_stNonIgnored,      \* some row had an ST-prefixed SKU outside the six state codes
    h_stNonIgnoredNonNeg,\* ... and a discounted price >= 0
    h_stNonNeg,          \* some row had an ST-prefixed SKU and a discounted price >= 0
    h_negAll,            \* sum of abs(disc) over the rows with disc < 0
    h_negOther,          \* ... that are neither subtotal markers nor S&H rows of a quote
    h_shPrices           \* disc of the rows whose SKU starts with S&H, in input order

vars == <<pc, endpoint, n, cur, quote_number, quote_tax, line_items, shipping_line,
          order_discount_total, tax_exempt, any_st_seen, any_variant_matched,
          submitted, status, h_stNonIgnored, h_stNonIgnoredNonNeg, h_stNonNeg,
          h_negAll, h_negOther, h_shPrices>>

hist == <<h_stNonIgnored, h_stNonIgnoredNonNeg, h_stNonNeg, h_negAll, h_negOther, h_shPrices>>

-----------------------------------------------------------------------------
\* String helpers

Str_SUBTOTAL  == <<"S","U","B","T","O","T","A","L">>
Str_SUB_TOTAL == <<"S","U","B","-","T","O","T","A","L">>
Str_SH        == <<"S","&","H">>
Str_ST        == <<"S","T">>

\* str.upper() on one character (the letters the modelled SKUs use).
UpperChar(c) ==
    CASE c = "a" -> "A" [] c = "b" -> "B" [] c = "h" -> "H" [] c = "l" -> "L"
      [] c = "o" -> "O" [] c = "s" -> "S" [] c = "t" -> "T" [] c = "u" -> "U"
      [] c = "w" -> "W" [] c = "x" -> "X" [] OTHER -> c

Upper(s) == [i \in 1..Len(s) |-> UpperChar(s[i])]

RECURSIVE LStrip(_)
LStrip(s) == IF s # <<>> /\ Head(s) = " " THEN LStrip(Tail(s)) ELSE s

RECURSIVE RStrip(_)
RStrip(s) == IF s # <<>> /\ s[Len(s)] = " " THEN RStrip(SubSeq(s, 1, Len(s) - 1)) ELSE s

Strip(s) == RStrip(LStrip(s))

StartsWith(s, p) == Len(s) >= Len(p) /\ SubSeq(s, 1, Len(p)) = p

-----------------------------------------------------------------------------
\* Money helpers

Abs(x) == IF x < 0 THEN -x ELSE x

\* Nearest integer to num/den (num >= 0, den > 0); an exact half goes up iff tie.
RoundDiv(num, den, tie) ==
    LET q == num \div den
        r == num % den
    IN IF 2 * r > den \/ (2 * r = den /\ tie) THEN q + 1 ELSE q

\* round(x, 2) and f"{x:.2f}": mills to cents.
Round2(m, tie) == IF m >= 0 THEN RoundDiv(m, 10, tie) ELSE -RoundDiv(-m, 10, tie)

-----------------------------------------------------------------------------
\* Inputs of a request

Skus ==
    { <<"s","u","b","t","o","t","a","l">>,
      <<"s","&","h">>,
      <<"S","T","C","A">>,
      <<" ","s","t","x","x">>,
      <<>>,
      <<"W","1">> }

\* A JSON value the code converts with int() / float(): ok is whether the
\* conversion succeeds, val what it yields.
Unparseable == [ok |-> FALSE, val |-> 0]

QtyInputs  == {[ok |-> TRUE, val |-> q] : q \in {0, 1}} \cup {Unparseable}

DiscInputs == {[ok |-> TRUE, val |-> d] : d \in {-2500, 0, 9995, 10000, 15000}}
                  \cup {Unparseable}

\* The rows tried: every SKU with every price at quantity 1, and the other
\* quantities at the price 10.00.
Rows == {r \in [sku : Skus, qty : QtyInputs, disc : DiscInputs] :
            (r.qty.ok /\ r.qty.val = 1) \/ (r.disc.ok /\ r.disc.val = 10000)}

QEntry(qn, tax) == [quote_number |-> qn, tax_info |-> tax]

QuoteInfos ==
    { <<>>,
      << QEntry(<<"Q1">>, << [ok |-> TRUE, val |-> 500] >>) >>,
      << QEntry(<<"">>, <<>>) >>,
      << QEntry(<<"Q1">>, <<>>), QEntry(<<"Q2">>, << [ok |-> TRUE, val |-> 0] >>) >>,
      << QEntry(<<>>, << Unparseable >>) >> }

\* What requests.post to graphql.json does for one lookup.
CatalogResponse(raises, code, edges) ==
    [raises |-> raises, status_code |-> code, edges |-> edges]

Node(sku, id, price) == [sku |-> sku, id |-> id, price |-> price]

CatalogResponses ==
    { CatalogResponse(TRUE, 0, <<>>),
      CatalogResponse(FALSE, 500, <<>>),
      CatalogResponse(FALSE, 200, <<>>),
      CatalogResponse(FALSE, 200, << Node(<<"w","1">>, 7, 10000) >>),
      CatalogResponse(FALSE, 200, << Node(<<"W","1","0">>, 8, 10000) >>),
      CatalogResponse(FALSE, 200, << Node(<<"W","1">>, 7, 0) >>) }

\* What requests.post to draft_orders.json does.
SubmitOutcomes == {"raise", "2xx", "non2xx"}

\* The roundings of m mills a float may produce: both neighbours at an exact half.
HalfwayChoices(m) == IF Abs(m) % 10 = 5 THEN BOOLEAN ELSE {FALSE}

-----------------------------------------------------------------------------
\* SKU mode: create_draft_from_method

Truthy(opt) == opt # <<>> /\ opt[1] # ""

\* quote_info loop: the last entry carrying a key wins; float() may raise.
RECURSIVE ParseQuoteInfo(_, _)
ParseQuoteInfo(qi, acc) ==
    IF qi = <<>> \/ acc.raised THEN acc
    ELSE LET q   == Head(qi)
             qn  == IF q.quote_number # <<>> THEN q.quote_number ELSE acc.quote_number
             bad == q.tax_info # <<>> /\ ~q.tax_info[1].ok
             tx  == IF q.tax_info # <<>> /\ ~bad THEN << q.tax_info[1].val >> ELSE acc.quote_tax
         IN ParseQuoteInfo(Tail(qi), [quote_number |-> qn, quote_tax |-> tx, raised |-> bad])

ignored_st ==
    { <<"S","T","C","A">>, <<"S","T","I","N">>, <<"S","T","N","Y">>,
      <<"S","T","P","A">>, <<"S","T","T","X">>, <<"S","T","W","A">> }

Str_SALES_TAX   == <<"S","A","L","E","S"," ","T","A","X">>
Str_Custom_Item == <<"C","u","s","t","o","m"," ","I","t","e","m">>

\* fetch_variant_info, given the response of its one call.
FetchVariantInfo(sku, resp) ==
    IF resp.status_code # 200 THEN <<>>
    ELSE IF resp.edges = <<>> THEN <<>>
    ELSE LET node == resp.edges[1]
         IN IF Upper(node.sku) # Upper(sku) THEN <<>>
            ELSE << [id |-> node.id, price |-> node.price] >>

\* An entry of line_items.  Keys a dict does not carry are FALSE / 0 here:
\* taxable_false is the key "taxable": False, requires_shipping the key
\* "requires_shipping": True, has_applied_discount the applied_discount block.
Item(kind, title, vid, price, qty, ntax, rs, hasd, amt) ==
    [kind |-> kind, title |-> title, variant_id |-> vid, price |-> price,
     quantity |-> qty, taxable_false |-> ntax, requires_shipping |-> rs,
     has_applied_discount |-> hasd, amount |-> amt]

ShippingLine(qn, disc, tie) ==
    [title |-> <<"QUOTE # ", qn>>, custom |-> TRUE, price |-> Round2(disc, tie)]

AssignShippingLineKeepFirst(old, qn, disc, tie) ==
    IF old # <<>> THEN old ELSE << ShippingLine(qn, disc, tie) >>

AssignShippingLine(old, qn, disc, tie) == << ShippingLine(qn, disc, tie) >>

AddOrderDiscountSigned(total, disc) == total + disc

AddOrderDiscount(total, disc) == total + Abs(disc)

SalesTaxItem(disc, qty, tie) ==
    Item("tax", Str_SALES_TAX, 0, Round2(disc, tie), qty, TRUE, FALSE, FALSE, 0)

CustomItemAlwaysShipped(sku, price, qty, matched, tie) ==
    Item("custom", IF sku # <<>> THEN sku ELSE Str_Custom_Item, 0,
         Round2(price, tie), qty, FALSE, TRUE, FALSE, 0)

CustomItem(sku, price, qty, matched, tie) ==
    Item("custom", IF sku # <<>> THEN sku ELSE Str_Custom_Item, 0,
         Round2(price, tie), qty, FALSE, ~matched, FALSE, 0)

DiscountAmountReversed(base_price, method_price, tie) ==
    LET d == Round2(method_price - base_price, tie)
    IN IF d < 0 THEN 0 ELSE d

DiscountAmount(base_price, method_price, tie) ==
    LET d == Round2(base_price - method_price, tie)
    IN IF d < 0 THEN 0 ELSE d

VariantItem(info, qty, base_price, discount_amount, tie) ==
    Item("variant", <<>>, info.id, Round2(base_price, tie), qty, FALSE, FALSE,
         discount_amount > 0, IF discount_amount > 0 THEN discount_amount ELSE 0)

\* The request-scoped accumulators, as one value.
Ctx ==
    [line_items |-> line_items, shipping_line |-> shipping_line,
     order_discount_total |-> order_discount_total, tax_exempt |-> tax_exempt,
     any_st_seen |-> any_st_seen, any_variant_matched |-> any_variant_matched,
     looked |-> FALSE]

\* One pass of the loop body over a row whose qty and disc converted:
\* sku is the stripped SKU, info what fetch_variant_info returns if it is
\* reached (looked tells whether it was), t1 and t2 the two roundings.
ProcessRow(c, qn, sku, qty, disc, info, t1, t2) ==
    LET sku_upper == Upper(sku) IN
    IF sku_upper \in {Str_SUBTOTAL, Str_SUB_TOTAL} THEN c
    ELSE IF StartsWith(sku_upper, Str_SH) /\ Truthy(qn)
    THEN [c EXCEPT !.shipping_line = AssignShippingLine(c.shipping_line, qn[1], disc, t1)]
    ELSE IF disc < 0
    THEN [c EXCEPT !.order_discount_total = AddOrderDiscount(c.order_discount_total, disc)]
    ELSE IF StartsWith(sku_upper, Str_ST)
    THEN IF sku_upper \in ignored_st
         THEN [c EXCEPT !.any_st_seen = TRUE]
         ELSE [c EXCEPT !.any_st_seen = TRUE,
                        !.tax_exempt = TRUE,
                        !.line_items = Append(c.line_items, SalesTaxItem(disc, qty, t1))]
    ELSE IF sku = <<>> /\ disc = 0 THEN c
    ELSE IF info = <<>>
    THEN [c EXCEPT !.looked = TRUE,
                   !.line_items = Append(c.line_items,
                        CustomItem(sku, disc, qty, c.any_variant_matched, t1))]
    ELSE LET shop_price   == info[1].price
             method_price == disc
         IN IF shop_price <= 0 \/ method_price > shop_price
            THEN [c EXCEPT !.looked = TRUE,
                           !.line_items = Append(c.line_items,
                                CustomItem(sku, method_price, qty, c.any_variant_matched, t1))]
            ELSE [c EXCEPT !.looked = TRUE,
                           !.any_variant_matched = TRUE,
                           !.line_items = Append(c.line_items,
                                VariantItem(info[1], qty, shop_price,
                                    DiscountAmount(shop_price, method_price, t2), t1))]

TaxFallbackIgnoringSt(te, st_seen, qtax) ==
    IF qtax # <<>> /\ qtax[1] = 0 THEN TRUE ELSE te

\* The tax_info fallback after the loop.
TaxFallback(te, st_seen, qtax) ==
    IF (~st_seen) /\ qtax # <<>>
    THEN (IF qtax[1] = 0 THEN TRUE ELSE te)
    ELSE te

IsEmptyOrderMissedShipping(li, sl) == li = <<>> /\ sl # <<>>

\* "if not line_items and not shipping_line"
IsEmptyOrder(li, sl) == li = <<>> /\ sl = <<>>

DraftBodyNoTaxFlag(li, sl, total, te, tie) ==
    [line_items |-> li, use_customer_default_address |-> TRUE,
     shipping_line |-> sl,
     applied_discount |-> IF total > 0 THEN << Round2(total, tie) >> ELSE <<>>,
     tax_exempt |-> FALSE]

\* draft_body; an absent key is <<>> (tax_exempt: FALSE).
DraftBody(li, sl, total, te, tie) ==
    [line_items |-> li, use_customer_default_address |-> TRUE,
     shipping_line |-> sl,
     applied_discount |-> IF total > 0 THEN << Round2(total, tie) >> ELSE <<>>,
     tax_exempt |-> te]

-----------------------------------------------------------------------------
\* Legacy percentage mode: create_draft_order

\* A product's tags as the regex sees them: <<>> for a tag without "<number>%",
\* else <<percent>>, in tenths of a percent.
TagLists ==
    { <<>>,
      << <<>>, <<1000>> >>,
      << <<125>>, <<1100>> >>,
      << <<1100>> >> }

TagResponse(raises, code, tags) == [raises |-> raises, status_code |-> code, tags |-> tags]

TagResponses ==
    {TagResponse(FALSE, 200, t) : t \in TagLists}
        \cup {TagResponse(FALSE, 404, << <<1000>> >>), TagResponse(TRUE, 0, <<>>)}

PriceInputs == {[ok |-> TRUE, val |-> p] : p \in {0, 4, 5000}} \cup {Unparseable}

LegacyRows == [has_keys : BOOLEAN, price : PriceInputs, quantity : {0, 1}]

RECURSIVE FirstPercent(_)
FirstPercent(tags) ==
    IF tags = <<>> THEN 0
    ELSE IF Head(tags) # <<>> THEN Head(tags)[1]
    ELSE FirstPercent(Tail(tags))

\* get_discount_from_tags, given the response of its one call.
GetDiscountFromTags(resp) ==
    IF resp.status_code # 200 THEN 0 ELSE FirstPercent(resp.tags)

\* amt of a line: price in cents, pct in tenths of a percent.
LegacyAmount(price, pct, tie) ==
    LET amt == IF price * pct >= 0 THEN RoundDiv(price * pct, 1000, tie)
                                   ELSE -RoundDiv(-(price * pct), 1000, tie)
    IN IF price - amt < 0 THEN price - 1 ELSE amt

LegacyItem(vid, qty, amt) == Item("legacy", <<>>, vid, 0, qty, FALSE, FALSE, TRUE, amt)

LegacyBody(li) == [line_items |-> li, use_customer_default_address |-> TRUE]

-----------------------------------------------------------------------------
\* History of the input, by what a row is, not by what the code does with it

IsStRow(it)        == StartsWith(Upper(Strip(it.sku)), Str_ST)
IsStateCodeRow(it) == Upper(Strip(it.sku)) \in
                         { <<"S","T","C","A">>, <<"S","T","I","N">>, <<"S","T","N","Y">>,
                           <<"S","T","P","A">>, <<"S","T","T","X">>, <<"S","T","W","A">> }
IsSubtotalRow(it)  == Upper(Strip(it.sku)) \in {Str_SUBTOTAL, Str_SUB_TOTAL}
IsSHRow(it)        == StartsWith(Upper(Strip(it.sku)), Str_SH)

Record(it) ==
    /\ h_stNonIgnored' = (h_stNonIgnored \/ (IsStRow(it) /\ ~IsStateCodeRow(it)))
    /\ h_stNonIgnoredNonNeg' =
          (h_stNonIgnoredNonNeg \/ (IsStRow(it) /\ ~IsStateCodeRow(it) /\ it.disc.val >= 0))
    /\ h_stNonNeg' = (h_stNonNeg \/ (IsStRow(it) /\ it.disc.val >= 0))
    /\ h_negAll' = h_negAll + (IF it.disc.val < 0 THEN Abs(it.disc.val) ELSE 0)
    /\ h_negOther' = h_negOther +
          (IF it.disc.val < 0 /\ ~IsSubtotalRow(it) /\ ~(IsSHRow(it) /\ Truthy(quote_number))
           THEN Abs(it.disc.val) ELSE 0)
    /\ h_shPrices' = IF IsSHRow(it) THEN Append(h_shPrices, it.disc.val) ELSE h_shPrices

-----------------------------------------------------------------------------
\* Actions

Init ==
    /\ pc = "idle" /\ endpoint = "none" /\ n = 0 /\ cur = <<>>
    /\ quote_number = <<>> /\ quote_tax = <<>>
    /\ line_items = <<>> /\ shipping_line = <<>> /\ order_discount_total = 0
    /\ tax_exempt = FALSE /\ any_st_seen = FALSE /\ any_variant_matched = FALSE
    /\ submitted = <<>> /\ status = 0
    /\ h_stNonIgnored = FALSE /\ h_stNonIgnoredNonNeg = FALSE /\ h_stNonNeg = FALSE
    /\ h_negAll = 0 /\ h_negOther = 0 /\ h_shPrices = <<>>

\* An exception leaves the handler: no response is built by it.
Crash == pc' = "crashed"

Respond(code) == pc' = "done" /\ status' = code

\* POST /create-draft-from-method up to the loop: get_json, the empty-list
\* check and the quote_info loop.
MethodRequest ==
    /\ pc = "idle"
    /\ endpoint' = "method"
    /\ \E has_json \in BOOLEAN, has_items \in BOOLEAN, qi \in QuoteInfos :
         LET meta == ParseQuoteInfo(qi, [quote_number |-> <<>>, quote_tax |-> <<>>,
                                         raised |-> FALSE])
         IN IF ~has_json
            THEN Crash /\ UNCHANGED <<status, quote_number, quote_tax>>
            ELSE IF ~has_items
            THEN Respond(400) /\ UNCHANGED <<quote_number, quote_tax>>
            ELSE IF meta.raised
            THEN Crash /\ UNCHANGED <<status, quote_number, quote_tax>>
            ELSE /\ pc' = "loop"
                 /\ quote_number' = meta.quote_number
                 /\ quote_tax' = meta.quote_tax
                 /\ UNCHANGED status
    /\ UNCHANGED <<n, cur, line_items, shipping_line, order_discount_total, tax_exempt,
                   any_st_seen, any_variant_matched, submitted, hist>>

\* One iteration of "for it in items".
MethodRow ==
    /\ pc = "loop" /\ endpoint = "method" /\ n < MaxRows
    /\ \E it \in Rows :
         IF ~it.qty.ok \/ ~it.disc.ok
         THEN Crash /\ UNCHANGED <<n, cur, line_items, shipping_line, order_discount_total,
                                   tax_exempt, any_st_seen, any_variant_matched, hist>>
         ELSE LET sku   == Strip(it.sku)
                  qty   == it.qty.val
                  disc  == it.disc.val
                  probe == ProcessRow(Ctx, quote_number, sku, qty, disc, <<>>, FALSE, FALSE)
              IN \E resp \in (IF probe.looked THEN CatalogResponses
                                              ELSE {CatalogResponse(FALSE, 0, <<>>)}),
                    t1 \in HalfwayChoices(disc), t2 \in HalfwayChoices(disc) :
                   IF resp.raises
                   THEN Crash /\ UNCHANGED <<n, cur, line_items, shipping_line,
                                             order_discount_total, tax_exempt, any_st_seen,
                                             any_variant_matched, hist>>
                   ELSE LET info == FetchVariantInfo(sku, resp)
                            c    == ProcessRow(Ctx, quote_number, sku, qty, disc, info, t1, t2)
                        IN /\ line_items' = c.line_items
                           /\ shipping_line' = c.shipping_line
                           /\ order_discount_total' = c.order_discount_total
                           /\ tax_exempt' = c.tax_exempt
                           /\ any_st_seen' = c.any_st_seen
                           /\ any_variant_matched' = c.any_variant_matched
                           /\ cur' = [disc |-> disc, sh |-> IsSHRow(it), looked |-> c.looked,
                                      info |-> IF c.looked THEN info ELSE <<>>]
                           /\ n' = n + 1
                           /\ Record(it)
                           /\ UNCHANGED pc
    /\ UNCHANGED <<endpoint, quote_number, quote_tax, submitted, status>>

\* After the loop: tax fallback, the empty-order check, the draft body and
\* the call that submits it.
MethodFinish ==
    /\ pc = "loop" /\ endpoint = "method" /\ n >= 1
    /\ tax_exempt' = TaxFallback(tax_exempt, any_st_seen, quote_tax)
    /\ IF IsEmptyOrder(line_items, shipping_line)
       THEN Respond(400) /\ UNCHANGED submitted
       ELSE \E out \in SubmitOutcomes, tie \in HalfwayChoices(order_discount_total) :
              /\ submitted' = << DraftBody(line_items, shipping_line, order_discount_total,
                                           tax_exempt', tie) >>
              /\ CASE out = "2xx"    -> Respond(200)
                   [] out = "non2xx" -> Respond(500)
                   [] OTHER          -> Crash /\ UNCHANGED status
    /\ UNCHANGED <<endpoint, n, cur, quote_number, quote_tax, line_items, shipping_line,
                   order_discount_total, any_st_seen, any_variant_matched, hist>>

\* POST /create-draft up to the loop.
LegacyRequest ==
    /\ pc = "idle"
    /\ endpoint' = "legacy"
    /\ pc' = "loop"
    /\ UNCHANGED <<n, cur, quote_number, quote_tax, line_items, shipping_line,
                   order_discount_total, tax_exempt, any_st_seen, any_variant_matched,
                   submitted, status, hist>>

\* One iteration of "for i in items".
LegacyRow ==
    /\ pc = "loop" /\ endpoint = "legacy" /\ n < MaxRows
    /\ \E i \in LegacyRows, resp \in TagResponses :
         IF ~i.has_keys \/ ~i.price.ok \/ resp.raises
         THEN Crash /\ UNCHANGED <<n, cur, line_items>>
         ELSE LET price == i.price.val
                  pct   == GetDiscountFromTags(resp)
              IN \E tie \in (IF (price * pct) % 1000 = 500 THEN BOOLEAN ELSE {FALSE}) :
                   /\ line_items' = Append(line_items,
                          LegacyItem(7, i.quantity, LegacyAmount(price, pct, tie)))
                   /\ cur' = [price |-> price, pct |-> pct]
                   /\ n' = n + 1
                   /\ UNCHANGED pc
    /\ UNCHANGED <<endpoint, quote_number, quote_tax, shipping_line, order_discount_total,
                   tax_exempt, any_st_seen, any_variant_matched, submitted, status, hist>>

\* After the loop: the payload and the call that submits it.
LegacyFinish ==
    /\ pc = "loop" /\ endpoint = "legacy"
    /\ \E out \in SubmitOutcomes :
         /\ submitted' = << LegacyBody(line_items) >>
         /\ CASE out = "2xx"    -> Respond(200)
              [] out = "non2xx" -> Respond(500)
              [] OTHER          -> Crash /\ UNCHANGED status
    /\ UNCHANGED <<endpoint, n, cur, quote_number, quote_tax, line_items, shipping_line,
                   order_discount_total, tax_exempt, any_st_seen, any_variant_matched, hist>>

Next ==
    \/ MethodRequest \/ MethodRow \/ MethodFinish
    \/ LegacyRequest \/ LegacyRow \/ LegacyFinish

Spec == Init /\ [][Next]_vars

-----------------------------------------------------------------------------
\* Claims

\* The code after the loop ran: a response other than "No items received"
\* was returned, or the draft body was handed to requests.post.
FinishRan == (pc = "done" /\ n >= 1) \/ submitted # <<>>

Last(seq) == seq[Len(seq)]

\* C1, as stated: in SKU mode, if the list holds a row whose SKU starts with
\* "ST" and is none of the six state codes, whatever its price, the order
\* submitted has tax_exempt set.
C1_AnyPriceTaxExempt ==
    (endpoint = "method" /\ submitted # <<>> /\ h_stNonIgnored) => submitted[1].tax_exempt

\* C1, amended: in SKU mode, if the list holds a row whose SKU starts with
\* "ST", is none of the six state codes and whose discounted price is >= 0,
\* tax_exempt is true from that row on and the order submitted has it set.
C1_NonNegativeStTaxExempt ==
    (endpoint = "method" /\ h_stNonIgnoredNonNeg) =>
        /\ tax_exempt
        /\ submitted # <<>> => submitted[1].tax_exempt

C1_Witness ==
    endpoint = "method" /\ h_stNonIgnoredNonNeg /\ submitted # <<>> /\ status = 200

\* C2, as stated: in SKU mode orderDiscountTotal equals the sum of abs(disc)
\* over all rows with disc < 0, and no such row produces a line item or any
\* other output item.
C2_AllNegativeRowsSummed ==
    /\ [](endpoint = "method" => order_discount_total = h_negAll)
    /\ [][(endpoint = "method" /\ n' = n + 1 /\ cur'.disc < 0) =>
            (line_items' = line_items /\ shipping_line' = shipping_line)]_vars

\* C2, amended: in SKU mode orderDiscountTotal equals the sum of abs(disc)
\* over the rows with disc < 0 that are neither subtotal markers nor S&H rows
\* of a request with a quote number; no row with disc < 0 produces a line
\* item, and only an S&H row of a request with a quote number touches the
\* shipping line.
C2_DiscountRowsSummed ==
    /\ [](endpoint = "method" => order_discount_total = h_negOther)
    /\ [][(endpoint = "method" /\ n' = n + 1 /\ cur'.disc < 0) =>
            /\ line_items' = line_items
            /\ ~(cur'.sh /\ Truthy(quote_number)) => shipping_line' = shipping_line]_vars

C2_Witness ==
    endpoint = "method" /\ n = 2 /\ h_negOther = 5000 /\ order_discount_total = 5000
        /\ line_items = <<>>

\* C3: in SKU mode, when the loop ends with no line item and no shipping
\* line the response is a 400 and nothing is submitted; every draft body
\* submitted has a line item or a shipping line.
C3_NoContentlessOrder ==
    endpoint = "method" =>
        /\ (FinishRan /\ line_items = <<>> /\ shipping_line = <<>>) =>
               (pc = "done" /\ status = 400 /\ submitted = <<>>)
        /\ submitted # <<>> =>
               (submitted[1].line_items # <<>> \/ submitted[1].shipping_line # <<>>)

C3_Witness ==
    endpoint = "method" /\ pc = "done" /\ n = 2 /\ status = 400 /\ submitted = <<>>
        /\ any_st_seen /\ h_negAll > 0

\* C4: in legacy mode, for a line with price >= 0.01, the amount sent leaves
\* a final price price - amount that is max(price - round(price*pct/100, 2),
\* 0.01), so never below one cent.
C4_OneCentFloor ==
    (endpoint = "legacy" /\ n >= 1 /\ cur.price >= 1) =>
        LET final == cur.price - Last(line_items).amount
            exact == cur.price * 1000 - cur.price * cur.pct   \* 1000 * (price - price*pct/100)
        IN /\ final >= 1
           /\ final = 1 \/ (1000 * final - exact \in -500..500)

\* C5: every item of line_items has quantity >= 1.
C5_QuantityAtLeastOne ==
    \A i \in 1..Len(line_items) : line_items[i].quantity >= 1

\* C6: in SKU mode a row whose lookup matches with basePrice > 0 and
\* 0 <= disc <= basePrice is emitted as a catalog item priced at basePrice;
\* its discount is basePrice - disc rounded to cents, between 0 and basePrice;
\* the applied_discount block is there exactly when that amount is > 0, and
\* not when disc = basePrice.
C6_CatalogDiscount ==
    (endpoint = "method" /\ n >= 1 /\ cur.looked /\ cur.info # <<>>
        /\ cur.info[1].price > 0 /\ cur.disc >= 0 /\ cur.disc <= cur.info[1].price) =>
        LET item == Last(line_items)
            base == cur.info[1].price
        IN /\ item.kind = "variant"
           /\ item.variant_id = cur.info[1].id
           /\ 10 * item.price = base
           /\ \E r \in 0..(base \div 10) :
                /\ 10 * r - (base - cur.disc) \in -5..5
                /\ item.has_applied_discount <=> r > 0
                /\ item.has_applied_discount => item.amount = r
           /\ cur.disc = base => ~item.has_applied_discount

C6_Witness ==
    endpoint = "method" /\ n >= 1 /\ cur.looked /\ cur.info # <<>>
        /\ cur.info[1].price = 10000 /\ cur.disc = 9995
        /\ Last(line_items).has_applied_discount /\ Last(line_items).amount = 1

\* C7: every request ends with a JSON response: no exception leaves a handler.
C7_AlwaysResponds == pc # "crashed"

C9_RequiresShipping ==
    endpoint = "method" =>
        \A i \in 1..Len(line_items) :
            line_items[i].kind = "custom" =>
                (line_items[i].requires_shipping <=>
                    ~\E j \in 1..(i - 1) : line_items[j].kind = "variant")

C9_Witness ==
    endpoint = "method" /\ Len(line_items) = 2 /\ line_items[1].kind = "variant"
        /\ line_items[2].kind = "custom" /\ ~line_items[2].requires_shipping
        /\ cur.looked /\ cur.info # <<>>

\* C10: in SKU mode with a quote number, the shipping line is absent iff no
\* row's SKU starts with S&H; otherwise it is titled "QUOTE # <number>" and
\* priced at the discounted price of the last such row; such a row adds no
\* line item and leaves order_discount_total alone; the body submitted
\* carries that one shipping line.
C10_LastShippingRowWins ==
    /\ []((endpoint = "method" /\ Truthy(quote_number)) =>
            /\ shipping_line = <<>> <=> h_shPrices = <<>>
            /\ Len(shipping_line) <= 1
            /\ h_shPrices # <<>> =>
                 /\ shipping_line[1].title = <<"QUOTE # ", quote_number[1]>>
                 /\ 10 * shipping_line[1].price - Last(h_shPrices) \in -5..5
            /\ submitted # <<>> => submitted[1].shipping_line = shipping_line)
    /\ [][(endpoint = "method" /\ Truthy(quote_number) /\ n' = n + 1 /\ cur'.sh) =>
            (line_items' = line_items /\ order_discount_total' = order_discount_total)]_vars

C10_Witness ==
    endpoint = "method" /\ Truthy(quote_number) /\ Len(h_shPrices) = 2
        /\ h_shPrices[1] = -2500 /\ h_shPrices[2] = 15000
        /\ submitted # <<>> /\ submitted[1].shipping_line[1].price = 1500

====
